---------------------------- MODULE Spec2Model ----------------------------
(***************************************************************************)
(* A model of the chess rules oracle GameRules (src/game_rules.py) and of  *)
(* the coordinate type Square (src/square.py).                             *)
(*                                                                         *)
(* Board, Game, Piece and Move are collaborators whose code is not part of *)
(* the two source files; they are modelled from their description in       *)
(* spec.md (sections 3, 4.4 and 6).  Everything named after a method of    *)
(* GameRules is a translation of that method.                              *)
(*                                                                         *)
(* Python lists are sequences, Square(r, c) is the pair <<r, c>>, a Piece  *)
(* is a record [color, type], a Move a record [start, end, type].  A call  *)
(* that may raise returns a record [raised, value].                        *)
(***************************************************************************)
EXTENDS Integers, Sequences, FiniteSets

VARIABLES
    game,      \* the Game handed to GameRules: board, turn, en_passant, rights
    op,        \* the operation called last ("none" before any call)
    arg,       \* its argument besides the game (a colour, a square, "-")
    ret,       \* what it returned: [raised, value]
    handed,    \* the opponent-square lists game.board handed out at line 85
               \* during the call: [given, now] = contents then and at return
    plyLeft    \* how many more moves the exploration may play

vars == <<game, op, arg, ret, handed, plyLeft>>

---------------------------------------------------------------------------
(* Values *)

BoardSize == 8

None == <<>>

WHITE == "WHITE"
BLACK == "BLACK"
PieceColor == {WHITE, BLACK}

PAWN == "PAWN"
KNIGHT == "KNIGHT"
BISHOP == "BISHOP"
ROOK == "ROOK"
QUEEN == "QUEEN"
KING == "KING"
PieceType == {PAWN, KNIGHT, BISHOP, ROOK, QUEEN, KING}

ORDINARY == "ORDINARY"
PAWN_PROMOTION == "PAWN_PROMOTION"
DOUBLE_PAWN_PUSH == "DOUBLE_PAWN_PUSH"
SHORT_CASTLE == "SHORT_CASTLE"
LONG_CASTLE == "LONG_CASTLE"

WHITE_WIN == "WHITE_WIN"
BLACK_WIN == "BLACK_WIN"
STALEMATE == "STALEMATE"
INSUFFICIENT_MATERIAL == "INSUFFICIENT_MATERIAL"
NoResult == "None"

BoardHasNoKing == "ValueError: Board has no king"

Raise(e) == [raised |-> TRUE, value |-> e]
Return(v) == [raised |-> FALSE, value |-> v]

\* F applied to the value of v, v being evaluated once
Bind(v, F(_)) == CHOOSE r \in {F(x) : x \in {v}} : TRUE

\* `x in list`
InList(x, list) == \E l \in {list}, y \in {x} : \E i \in 1..Len(l) : l[i] = y

\* the elements of a list, as a set
Elems(list) == UNION {{l[i] : i \in 1..Len(l)} : l \in {list}}

RECURSIVE ConcatFrom(_, _)
ConcatFrom(lists, i) ==
    IF i > Len(lists) THEN <<>> ELSE lists[i] \o ConcatFrom(lists, i + 1)

\* the lists of a list of lists, joined in order (repeated list.extend)
Concat(lists) == Bind(<<>> \o lists, LAMBDA l : ConcatFrom(l, 1))

---------------------------------------------------------------------------
(* Square *)

Square(row, column) == <<row, column>>

is_valid(square) ==
    /\ 0 <= square[1] /\ square[1] < BoardSize
    /\ 0 <= square[2] /\ square[2] < BoardSize

---------------------------------------------------------------------------
(* Piece, Move, Board, Game: modelled from spec.md *)

Piece(color, type) == [color |-> color, type |-> type]

\* what board[square] is for an empty square
NoPiece == [color |-> "-", type |-> "-"]

\* board[square]; a board is the function from its occupied squares to
\* their pieces
At(board, square) ==
    IF square \in DOMAIN board THEN board[square] ELSE NoPiece

Move(start, end, type) == [start |-> start, end |-> end, type |-> type]

opposing_color(color) == IF color = WHITE THEN BLACK ELSE WHITE

\* the valid squares in row-major order: the order in which a board lists them
AllSquares ==
    [i \in 1..(BoardSize * BoardSize) |->
        Square((i - 1) \div BoardSize, (i - 1) % BoardSize)]

ValidSquares == (0..(BoardSize - 1)) \X (0..(BoardSize - 1))

get_squares_with_pieces(board, color) ==
    SelectSeq(AllSquares, LAMBDA s : At(board, s).color = color)

get_empty_squares(board) ==
    SelectSeq(AllSquares, LAMBDA s : s \notin DOMAIN board)

\* row 0 is Black's home rank, row 7 White's; column 0 is the queen's side
get_pawn_direction(color) == IF color = WHITE THEN -1 ELSE 1

get_pawn_starting_row(color) == IF color = WHITE THEN BoardSize - 2 ELSE 1

get_pawn_end_row(color) == IF color = WHITE THEN 0 ELSE BoardSize - 1

\* the board with the squares of `removed` emptied and then the
\* <<square, piece>> pairs of `placed` put on it
Rearranged(board, removed, placed) ==
    [s \in ((DOMAIN board) \ removed) \cup {p[1] : p \in placed} |->
        IF \E p \in placed : p[1] = s
        THEN (CHOOSE p \in placed : p[1] = s)[2]
        ELSE board[s]]

\* Game.simulate_move: the board after the move, the game itself untouched
simulate_move(g, move) ==
    LET b == g.board
        piece == At(b, move.start)
        row == move.start[1]
    IN  CASE move.type = LONG_CASTLE ->
                Rearranged(b, {Square(row, 4), Square(row, 0)},
                           {<<Square(row, 2), At(b, Square(row, 4))>>,
                            <<Square(row, 3), At(b, Square(row, 0))>>})
          [] move.type = SHORT_CASTLE ->
                Rearranged(b, {Square(row, 4), Square(row, 7)},
                           {<<Square(row, 6), At(b, Square(row, 4))>>,
                            <<Square(row, 5), At(b, Square(row, 7))>>})
          [] move.type = PAWN_PROMOTION ->
                Rearranged(b, {move.start},
                           {<<move.end, Piece(piece.color, QUEEN)>>})
          [] OTHER ->
                IF piece.type = PAWN /\ move.end = g.en_passant
                THEN Rearranged(b, {move.start, Square(row, move.end[2])},
                                {<<move.end, piece>>})
                ELSE Rearranged(b, {move.start}, {<<move.end, piece>>})

---------------------------------------------------------------------------
(* GameRules: pseudo-legal moves *)

\* lines 85-87: the list the board hands out, and what it holds once the
\* en-passant target has been appended to it
OpponentSquares(piece, board, en_passant) ==
    Bind(get_squares_with_pieces(board, opposing_color(piece.color)),
         LAMBDA given :
            [given |-> given,
             now |-> IF en_passant # None
                     THEN Append(given, en_passant) ELSE given])

\* RangedLoop without the break of line 239: stepping goes on past a capture
RECURSIVE RangedLoop_NoBreak(_, _, _, _, _, _)
RangedLoop_NoBreak(direction, start_square, empty_squares, squares_with_opponent_pieces, steps, psuedo_legal_moves) ==
    Bind(Square(start_square[1] + direction[1] * steps,
                start_square[2] + direction[2] * steps),
         LAMBDA end_square :
            IF \/ InList(end_square, empty_squares)
               \/ InList(end_square, squares_with_opponent_pieces)
            THEN RangedLoop_NoBreak(direction, start_square, empty_squares,
                            squares_with_opponent_pieces, steps + 1,
                            Append(psuedo_legal_moves,
                                   Move(start_square, end_square, ORDINARY)))
            ELSE [steps |-> steps, psuedo_legal_moves |-> psuedo_legal_moves])

\* lines 228-242: the loop's variables when it breaks
RECURSIVE RangedLoop(_, _, _, _, _, _)
RangedLoop(direction, start_square, empty_squares, squares_with_opponent_pieces, steps, psuedo_legal_moves) ==
    Bind(Square(start_square[1] + direction[1] * steps,
                start_square[2] + direction[2] * steps),
         LAMBDA end_square :
            IF InList(end_square, empty_squares)
            THEN RangedLoop(direction, start_square, empty_squares,
                            squares_with_opponent_pieces, steps + 1,
                            Append(psuedo_legal_moves,
                                   Move(start_square, end_square, ORDINARY)))
            ELSE IF InList(end_square, squares_with_opponent_pieces)
            THEN [steps |-> steps,
                  psuedo_legal_moves |->
                      Append(psuedo_legal_moves,
                             Move(start_square, end_square, ORDINARY))]
            ELSE [steps |-> steps, psuedo_legal_moves |-> psuedo_legal_moves])

get_ranged_piece_psuedo_legal_moves_in_direction(direction, start_square, empty_squares, squares_with_opponent_pieces) ==
    RangedLoop(direction, start_square, empty_squares,
               squares_with_opponent_pieces, 1, <<>>).psuedo_legal_moves

KnightMoves ==
    << <<1, 2>>, <<1, -2>>, <<-1, 2>>, <<-1, -2>>,
       <<2, 1>>, <<2, -1>>, <<-2, 1>>, <<-2, -1>> >>

KingMoves ==
    << <<1, 1>>, <<1, 0>>, <<1, -1>>, <<0, 1>>,
       <<0, -1>>, <<-1, 1>>, <<-1, 0>>, <<-1, -1>> >>

BishopDirections == << <<1, 1>>, <<1, -1>>, <<-1, 1>>, <<-1, -1>> >>

RookDirections == << <<1, 0>>, <<-1, 0>>, <<0, 1>>, <<0, -1>> >>

\* [Move(start_square, end) for end in ends]
MovesTo(start_square, ends, move_type) ==
    Bind(ends, LAMBDA e :
        <<>> \o [i \in 1..Len(e) |-> Move(start_square, e[i], move_type)])

\* lines 121-124 and 150-153: the offsets whose end square is available
OffsetMoves(moves, start_square, available_squares) ==
    Bind(available_squares, LAMBDA available :
        MovesTo(start_square,
                SelectSeq([i \in 1..Len(moves) |->
                              Square(start_square[1] + moves[i][1],
                                     start_square[2] + moves[i][2])],
                          LAMBDA end_square : InList(end_square, available)),
                ORDINARY))

\* lines 128-131 and 135-138: the rays of every direction, in order
RangedMoves(directions, start_square, empty_squares, squares_with_opponent_pieces) ==
    Concat([i \in 1..Len(directions) |->
        get_ranged_piece_psuedo_legal_moves_in_direction(
            directions[i], start_square, empty_squares,
            squares_with_opponent_pieces)])

\* PawnMoves with the captures of line 104 left ORDINARY
PawnMoves_PlainCapture(piece, start_square, empty_squares, squares_with_opponent_pieces) ==
    LET direction == get_pawn_direction(piece.color)
        one_row_forward == start_square[1] + direction
        move_type == IF one_row_forward = get_pawn_end_row(piece.color)
                     THEN PAWN_PROMOTION ELSE ORDINARY
        capture_squares == << Square(one_row_forward, start_square[2] - 1),
                              Square(one_row_forward, start_square[2] + 1) >>
        one_square_forward == Square(one_row_forward, start_square[2])
        starting_row == get_pawn_starting_row(piece.color)
        two_squares_forward ==
            Square(one_row_forward + direction, start_square[2])
    IN  MovesTo(start_square,
                SelectSeq(capture_squares,
                    LAMBDA c : InList(c, squares_with_opponent_pieces)),
                ORDINARY)
        \o (IF InList(one_square_forward, empty_squares)
             THEN <<Move(start_square, one_square_forward, move_type)>>
                  \o (IF /\ start_square[1] = starting_row
                          /\ InList(two_squares_forward, empty_squares)
                       THEN <<Move(start_square, two_squares_forward,
                                   DOUBLE_PAWN_PUSH)>>
                       ELSE <<>>)
             ELSE <<>>)

\* PawnMoves with the test of line 114 on the end row, not the starting row
PawnMoves_WrongRow(piece, start_square, empty_squares, squares_with_opponent_pieces) ==
    LET direction == get_pawn_direction(piece.color)
        one_row_forward == start_square[1] + direction
        move_type == IF one_row_forward = get_pawn_end_row(piece.color)
                     THEN PAWN_PROMOTION ELSE ORDINARY
        capture_squares == << Square(one_row_forward, start_square[2] - 1),
                              Square(one_row_forward, start_square[2] + 1) >>
        one_square_forward == Square(one_row_forward, start_square[2])
        starting_row == get_pawn_starting_row(piece.color)
        two_squares_forward ==
            Square(one_row_forward + direction, start_square[2])
    IN  MovesTo(start_square,
                SelectSeq(capture_squares,
                    LAMBDA c : InList(c, squares_with_opponent_pieces)),
                move_type)
        \o (IF InList(one_square_forward, empty_squares)
             THEN <<Move(start_square, one_square_forward, move_type)>>
                  \o (IF /\ start_square[1] = get_pawn_end_row(piece.color)
                          /\ InList(two_squares_forward, empty_squares)
                       THEN <<Move(start_square, two_squares_forward,
                                   DOUBLE_PAWN_PUSH)>>
                       ELSE <<>>)
             ELSE <<>>)

\* lines 92-115
PawnMoves(piece, start_square, empty_squares, squares_with_opponent_pieces) ==
    LET direction == get_pawn_direction(piece.color)
        one_row_forward == start_square[1] + direction
        move_type == IF one_row_forward = get_pawn_end_row(piece.color)
                     THEN PAWN_PROMOTION ELSE ORDINARY
        capture_squares == << Square(one_row_forward, start_square[2] - 1),
                              Square(one_row_forward, start_square[2] + 1) >>
        one_square_forward == Square(one_row_forward, start_square[2])
        starting_row == get_pawn_starting_row(piece.color)
        two_squares_forward ==
            Square(one_row_forward + direction, start_square[2])
    IN  MovesTo(start_square,
                SelectSeq(capture_squares,
                    LAMBDA c : InList(c, squares_with_opponent_pieces)),
                move_type)
        \o (IF InList(one_square_forward, empty_squares)
             THEN <<Move(start_square, one_square_forward, move_type)>>
                  \o (IF /\ start_square[1] = starting_row
                          /\ InList(two_squares_forward, empty_squares)
                       THEN <<Move(start_square, two_squares_forward,
                                   DOUBLE_PAWN_PUSH)>>
                       ELSE <<>>)
             ELSE <<>>)

RECURSIVE get_psuedo_legal_moves_for_piece(_, _, _, _)

\* lines 91-153: the match on the piece's type
MatchType(piece, start_square, board, empty_squares, squares_with_opponent_pieces) ==
    CASE piece.type = PAWN ->
            PawnMoves(piece, start_square, empty_squares,
                      squares_with_opponent_pieces)
      [] piece.type = KNIGHT ->
            OffsetMoves(KnightMoves, start_square,
                        empty_squares \o squares_with_opponent_pieces)
      [] piece.type = BISHOP ->
            RangedMoves(BishopDirections, start_square, empty_squares,
                        squares_with_opponent_pieces)
      [] piece.type = ROOK ->
            RangedMoves(RookDirections, start_square, empty_squares,
                        squares_with_opponent_pieces)
      [] piece.type = QUEEN ->
            get_psuedo_legal_moves_for_piece(
                Piece(piece.color, BISHOP), start_square, board, None)
            \o get_psuedo_legal_moves_for_piece(
                Piece(piece.color, ROOK), start_square, board, None)
      [] piece.type = KING ->
            OffsetMoves(KingMoves, start_square,
                        empty_squares \o squares_with_opponent_pieces)
      [] OTHER -> <<>>

get_psuedo_legal_moves_for_piece(piece, start_square, board, en_passant) ==
    Bind(OpponentSquares(piece, board, en_passant).now,
         LAMBDA squares_with_opponent_pieces :
            Bind(get_empty_squares(board), LAMBDA empty_squares :
                MatchType(piece, start_square, board, empty_squares,
                          squares_with_opponent_pieces)))

get_psuedo_legal_moves(g) ==
    Bind(get_squares_with_pieces(g.board, g.turn),
         LAMBDA squares_with_own_pieces :
            Concat([i \in 1..Len(squares_with_own_pieces) |->
                get_psuedo_legal_moves_for_piece(
                    g.board[squares_with_own_pieces[i]],
                    squares_with_own_pieces[i], g.board, g.en_passant)]))

---------------------------------------------------------------------------
(* GameRules: attacked squares, check, castling, legal moves, result *)

\* [move.end for move in moves]
MoveEnds(moves) ==
    Bind(moves, LAMBDA m : <<>> \o [i \in 1..Len(m) |-> m[i].end])

\* lines 194-207: what the piece on one square adds to attacked_squares
PieceAttacks(board, square) ==
    IF board[square].type = PAWN
    THEN SelectSeq(
            << Square(square[1] + get_pawn_direction(board[square].color),
                      square[2] - 1),
               Square(square[1] + get_pawn_direction(board[square].color),
                      square[2] + 1) >>,
            is_valid)
    ELSE MoveEnds(get_psuedo_legal_moves_for_piece(
                      board[square], square, board, None))

get_attacked_squares(board, turn) ==
    Bind(get_squares_with_pieces(board, turn),
         LAMBDA squares_with_own_pieces :
            Concat([i \in 1..Len(squares_with_own_pieces) |->
                       PieceAttacks(board, squares_with_own_pieces[i])]))

\* lines 37-41: the last square of the colour that holds a king, or None
KingSquare(board, king_color) ==
    Bind(SelectSeq(get_squares_with_pieces(board, king_color),
                   LAMBDA s : At(board, s) # NoPiece /\ board[s].type = KING),
         LAMBDA kings : IF kings = <<>> THEN None ELSE kings[Len(kings)])

\* is_check without lines 43-44: a missing king is in no list
is_check_NoRaise(board, king_color) ==
    Bind(get_attacked_squares(board, opposing_color(king_color)),
         LAMBDA attacked_squares :
            Bind(KingSquare(board, king_color), LAMBDA king_square :
                Return(InList(king_square, attacked_squares))))

is_check(board, king_color) ==
    Bind(get_attacked_squares(board, opposing_color(king_color)),
         LAMBDA attacked_squares :
            Bind(KingSquare(board, king_color), LAMBDA king_square :
                IF king_square = None
                THEN Raise(BoardHasNoKing)
                ELSE Return(InList(king_square, attacked_squares))))

\* CastlingMoves with any() where line 171 and line 180 have all()
CastlingMoves_Any(g, empty_squares, opponent_attacked_squares) ==
    LET valid_castling_square(square) ==
            /\ InList(square, empty_squares)
            /\ ~InList(square, opponent_attacked_squares)
        starting_row == get_pawn_end_row(opposing_color(g.turn))
    IN  (IF /\ g.long_castling_rights[g.turn]
            /\ \E c \in {1, 2, 3} :
                   valid_castling_square(Square(starting_row, c))
         THEN << Move(Square(starting_row, 4), Square(starting_row, 0),
                      LONG_CASTLE),
                 Move(Square(starting_row, 4), Square(starting_row, 1),
                      LONG_CASTLE),
                 Move(Square(starting_row, 4), Square(starting_row, 2),
                      LONG_CASTLE) >>
         ELSE <<>>)
        \o
        (IF /\ g.short_castling_rights[g.turn]
            /\ \E c \in {5, 6} :
                   valid_castling_square(Square(starting_row, c))
         THEN << Move(Square(starting_row, 4), Square(starting_row, 6),
                      SHORT_CASTLE),
                 Move(Square(starting_row, 4), Square(starting_row, 7),
                      SHORT_CASTLE) >>
         ELSE <<>>)

\* CastlingMoves with one landing square a side: the king's
CastlingMoves_OneLanding(g, empty_squares, opponent_attacked_squares) ==
    LET valid_castling_square(square) ==
            /\ InList(square, empty_squares)
            /\ ~InList(square, opponent_attacked_squares)
        starting_row == get_pawn_end_row(opposing_color(g.turn))
    IN  (IF /\ g.long_castling_rights[g.turn]
            /\ \A c \in {1, 2, 3} :
                   valid_castling_square(Square(starting_row, c))
         THEN << Move(Square(starting_row, 4), Square(starting_row, 2),
                      LONG_CASTLE) >>
         ELSE <<>>)
        \o
        (IF /\ g.short_castling_rights[g.turn]
            /\ \A c \in {5, 6} :
                   valid_castling_square(Square(starting_row, c))
         THEN << Move(Square(starting_row, 4), Square(starting_row, 6),
                      SHORT_CASTLE) >>
         ELSE <<>>)

\* lines 162-186: the castling moves of a side that is not in check
CastlingMoves(g, empty_squares, opponent_attacked_squares) ==
    LET valid_castling_square(square) ==
            /\ InList(square, empty_squares)
            /\ ~InList(square, opponent_attacked_squares)
        starting_row == get_pawn_end_row(opposing_color(g.turn))
    IN  (IF /\ g.long_castling_rights[g.turn]
            /\ \A c \in {1, 2, 3} :
                   valid_castling_square(Square(starting_row, c))
         THEN << Move(Square(starting_row, 4), Square(starting_row, 0),
                      LONG_CASTLE),
                 Move(Square(starting_row, 4), Square(starting_row, 1),
                      LONG_CASTLE),
                 Move(Square(starting_row, 4), Square(starting_row, 2),
                      LONG_CASTLE) >>
         ELSE <<>>)
        \o
        (IF /\ g.short_castling_rights[g.turn]
            /\ \A c \in {5, 6} :
                   valid_castling_square(Square(starting_row, c))
         THEN << Move(Square(starting_row, 4), Square(starting_row, 6),
                      SHORT_CASTLE),
                 Move(Square(starting_row, 4), Square(starting_row, 7),
                      SHORT_CASTLE) >>
         ELSE <<>>)

\* get_castling_moves with line 164 testing emptiness alone
get_castling_moves_EmptyOnly(g) ==
    Bind(is_check(g.board, g.turn), LAMBDA check :
        IF check.raised THEN check
        ELSE IF check.value THEN Return(<<>>)
        ELSE Bind(get_empty_squares(g.board), LAMBDA empty_squares :
                Return(CastlingMoves(g, empty_squares, <<>>))))

get_castling_moves(g) ==
    Bind(is_check(g.board, g.turn), LAMBDA check :
        IF check.raised THEN check
        ELSE IF check.value THEN Return(<<>>)
        ELSE Bind(get_empty_squares(g.board), LAMBDA empty_squares :
                Bind(get_attacked_squares(g.board, opposing_color(g.turn)),
                     LAMBDA opponent_attacked_squares :
                        Return(CastlingMoves(g, empty_squares,
                                             opponent_attacked_squares)))))

\* lines 22-24: each pseudo-legal move with what is_check says after it
Tested(g, psuedo_legal_moves) ==
    <<>> \o [i \in 1..Len(psuedo_legal_moves) |->
        [move |-> psuedo_legal_moves[i],
         check |-> Bind(simulate_move(g, psuedo_legal_moves[i]),
                        LAMBDA board : is_check(board, g.turn))]]

get_legal_moves(g) ==
    Bind(get_psuedo_legal_moves(g), LAMBDA psuedo_legal_moves :
        Bind(Tested(g, psuedo_legal_moves), LAMBDA tested :
            IF \E i \in 1..Len(tested) : tested[i].check.raised
            THEN Raise(BoardHasNoKing)
            ELSE Bind(get_castling_moves(g), LAMBDA castling :
                    IF castling.raised THEN castling
                    ELSE Return(
                        Bind(SelectSeq(tested, LAMBDA t : ~t.check.value),
                             LAMBDA kept :
                                <<>> \o [i \in 1..Len(kept) |-> kept[i].move])
                        \o castling.value))))

\* is_insufficient_material with the bound of line 213 off by one
is_insufficient_material_OnePiece(pieces) ==
    IF Len(pieces) > 1
    THEN FALSE
    ELSE LET piece_types == {pieces[i].type : i \in 1..Len(pieces)}
         IN  \/ piece_types = {KING}
             \/ piece_types = {KING, KNIGHT}
             \/ piece_types = {KING, BISHOP}

is_insufficient_material(pieces) ==
    IF Len(pieces) > 2
    THEN FALSE
    ELSE LET piece_types == {pieces[i].type : i \in 1..Len(pieces)}
         IN  \/ piece_types = {KING}
             \/ piece_types = {KING, KNIGHT}
             \/ piece_types = {KING, BISHOP}

\* [board[square] for square in board.get_squares_with_pieces(color)]
PiecesOf(board, color) ==
    Bind(get_squares_with_pieces(board, color), LAMBDA squares :
        <<>> \o [i \in 1..Len(squares) |-> board[squares[i]]])

\* get_game_result with the two colours of line 55 exchanged
get_game_result_Swapped(g) ==
    Bind(get_legal_moves(g), LAMBDA legal_moves :
        IF legal_moves.raised THEN legal_moves
        ELSE IF Len(legal_moves.value) = 0
        THEN Bind(is_check(g.board, g.turn), LAMBDA check :
                IF check.raised THEN check
                ELSE IF check.value
                THEN Return(IF g.turn = WHITE THEN WHITE_WIN ELSE BLACK_WIN)
                ELSE Return(STALEMATE))
        ELSE Bind(PiecesOf(g.board, WHITE), LAMBDA white_pieces :
                Bind(PiecesOf(g.board, BLACK), LAMBDA black_pieces :
                    IF /\ is_insufficient_material(white_pieces)
                       /\ is_insufficient_material(black_pieces)
                    THEN Return(INSUFFICIENT_MATERIAL)
                    ELSE Return(NoResult))))

get_game_result(g) ==
    Bind(get_legal_moves(g), LAMBDA legal_moves :
        IF legal_moves.raised THEN legal_moves
        ELSE IF Len(legal_moves.value) = 0
        THEN Bind(is_check(g.board, g.turn), LAMBDA check :
                IF check.raised THEN check
                ELSE IF check.value
                THEN Return(IF g.turn = BLACK THEN WHITE_WIN ELSE BLACK_WIN)
                ELSE Return(STALEMATE))
        ELSE Bind(PiecesOf(g.board, WHITE), LAMBDA white_pieces :
                Bind(PiecesOf(g.board, BLACK), LAMBDA black_pieces :
                    IF /\ is_insufficient_material(white_pieces)
                       /\ is_insufficient_material(black_pieces)
                    THEN Return(INSUFFICIENT_MATERIAL)
                    ELSE Return(NoResult))))

---------------------------------------------------------------------------
(* Game.make_move and the positions a caller builds: modelled from spec.md *)

Game(board, turn, en_passant, long_rights, short_rights) ==
    [board |-> board, turn |-> turn, en_passant |-> en_passant,
     long_castling_rights |-> long_rights,
     short_castling_rights |-> short_rights]

HomeRow(color) == get_pawn_end_row(opposing_color(color))

\* the game after the side to move has played `move`
make_move(g, move) ==
    LET own == g.turn
        other == opposing_color(g.turn)
        piece == At(g.board, move.start)
        castles == move.type \in {LONG_CASTLE, SHORT_CASTLE}
        keeps(column) ==
            /\ piece.type # KING
            /\ ~castles
            /\ move.start # Square(HomeRow(own), column)
        spares(column) == move.end # Square(HomeRow(other), column)
    IN  Game(simulate_move(g, move),
             other,
             IF move.type = DOUBLE_PAWN_PUSH
             THEN Square((move.start[1] + move.end[1]) \div 2, move.start[2])
             ELSE None,
             [c \in PieceColor |->
                 IF c = own THEN g.long_castling_rights[c] /\ keeps(0)
                 ELSE g.long_castling_rights[c] /\ (castles \/ spares(0))],
             [c \in PieceColor |->
                 IF c = own THEN g.short_castling_rights[c] /\ keeps(7)
                 ELSE g.short_castling_rights[c] /\ (castles \/ spares(7))])

\* the board holding exactly the given <<square, piece>> pairs
BoardOf(placed) ==
    [s \in {p[1] : p \in placed} |-> (CHOOSE p \in placed : p[1] = s)[2]]

BackRank == <<ROOK, KNIGHT, BISHOP, QUEEN, KING, BISHOP, KNIGHT, ROOK>>

StartingBoard ==
    [s \in {q \in ValidSquares :
                \E c \in PieceColor :
                    q[1] \in {HomeRow(c), get_pawn_starting_row(c)}} |->
        CASE s[1] = HomeRow(BLACK) -> Piece(BLACK, BackRank[s[2] + 1])
          [] s[1] = get_pawn_starting_row(BLACK) -> Piece(BLACK, PAWN)
          [] s[1] = get_pawn_starting_row(WHITE) -> Piece(WHITE, PAWN)
          [] OTHER -> Piece(WHITE, BackRank[s[2] + 1])]

AllRights == [c \in PieceColor |-> TRUE]
NoRights == [c \in PieceColor |-> FALSE]

StartingGame == Game(StartingBoard, WHITE, None, AllRights, AllRights)

---------------------------------------------------------------------------
(* The lists game.board hands out at line 85 during a call *)

PieceHandOuts(piece, board, en_passant) ==
    {OpponentSquares(piece, board, en_passant)}
    \cup (IF piece.type = QUEEN
          THEN {OpponentSquares(piece, board, None)} ELSE {})

AttackHandOuts(board, turn) ==
    UNION {PieceHandOuts(board[s], board, None) :
              s \in {t \in Elems(get_squares_with_pieces(board, turn)) :
                         board[t].type # PAWN}}

LegalMovesHandOuts(g) ==
    UNION {PieceHandOuts(g.board[s], g.board, g.en_passant) :
              s \in Elems(get_squares_with_pieces(g.board, g.turn))}
    \cup (IF /\ KingSquare(g.board, g.turn) = None
             /\ get_psuedo_legal_moves(g) # <<>>
          THEN {}
          ELSE AttackHandOuts(g.board, opposing_color(g.turn)))

---------------------------------------------------------------------------
(* The positions the operations are called on *)

\* a game as it is handed over, nothing called on it yet
Fresh(g, plies) ==
    /\ game = g
    /\ op = "none"
    /\ arg = "-"
    /\ ret = Return(NoResult)
    /\ handed = {}
    /\ plyLeft = plies

KingsApart(a, b) ==
    \/ a[1] - b[1] > 1 \/ b[1] - a[1] > 1
    \/ a[2] - b[2] > 1 \/ b[2] - a[2] > 1

\* the side that has just moved has not left its king in check
Reachable(g) == ~is_check(g.board, opposing_color(g.turn)).value

Both(flag) == [c \in PieceColor |-> flag]

\* the standard starting position and the positions MaxPlyStart moves away
MaxPlyStart == 1

InitStart == Fresh(StartingGame, MaxPlyStart)

\* kings and rooks at home, any castling rights, and at most one more
\* piece within CastleZone rows of the back rank of the side to move
CastleZone == 2

CastleBase ==
    UNION {{<<Square(HomeRow(c), 4), Piece(c, KING)>>,
            <<Square(HomeRow(c), 0), Piece(c, ROOK)>>,
            <<Square(HomeRow(c), 7), Piece(c, ROOK)>>} : c \in PieceColor}

NearRow(row, color, zone) ==
    IF HomeRow(color) = 0 THEN row <= zone ELSE row >= BoardSize - 1 - zone

CastleExtras(turn) ==
    {{}} \cup
    {{<<s, Piece(c, t)>>} :
        s \in {q \in ValidSquares :
                  /\ NearRow(q[1], turn, CastleZone)
                  /\ \A p \in CastleBase : p[1] # q},
        c \in PieceColor,
        t \in {QUEEN, ROOK, BISHOP, KNIGHT, PAWN}}

InitCastle ==
    \E turn \in PieceColor, long \in BOOLEAN, short \in BOOLEAN :
        \E extra \in CastleExtras(turn) :
            \E g \in {Game(BoardOf(CastleBase \cup extra), turn, None,
                           Both(long), Both(short))} :
                /\ \A p \in extra :
                      p[2].type = PAWN => p[1][1] \notin {0, BoardSize - 1}
                /\ Reachable(g)
                /\ Fresh(g, 0)

\* endings in the corner of EndZone by EndZone squares: a king each (or one
\* of them missing), and at most one more piece
EndZone == 3

EndSquares == {s \in ValidSquares : s[1] < EndZone /\ s[2] < EndZone}

InitEnd ==
    \E turn \in PieceColor, strong \in PieceColor :
      \E ks \in EndSquares, kw \in EndSquares \cup {None} :
        \E x \in EndSquares \cup {None}, t \in {QUEEN, ROOK, BISHOP, KNIGHT} :
          \E g \in {Game(BoardOf(
                         {<<ks, Piece(strong, KING)>>}
                         \cup (IF kw = None THEN {}
                               ELSE {<<kw, Piece(opposing_color(strong), KING)>>})
                         \cup (IF x = None THEN {}
                               ELSE {<<x, Piece(strong, t)>>})),
                       turn, None, Both(FALSE), Both(FALSE))} :
              /\ ks # kw /\ ks # x /\ (x # None => kw # x)
              /\ kw # None => KingsApart(ks, kw) /\ Reachable(g)
              /\ Fresh(g, 0)

\* a bishop, rook or queen on any square, with the two kings up to RayZone
\* squares away from it along its rows, columns and diagonals. Either the
\* other side is to move, so that the piece may stand aimed at its king, or
\* its own side is, after a pawn of the other side has passed one of those
\* squares in a double push, the kings then RayZone squares away and the
\* other king not in the way of the piece
RayZone == 2

Offset(square, offset) == Square(square[1] + offset[1], square[2] + offset[2])

\* the squares of the board the given numbers of steps away from a square
Around(square, steps) ==
    {Offset(square, <<d[1] * k, d[2] * k>>) :
        d \in Elems(KingMoves), k \in steps} \cap ValidSquares

\* the squares around a square that a pawn of this colour passes in its
\* double push
PassedSquares(color, square) ==
    {q \in Around(square, 1..RayZone) :
        q[1] = get_pawn_starting_row(color) + get_pawn_direction(color)}

InitRay ==
    \E s \in ValidSquares, t \in {BISHOP, ROOK, QUEEN} :
      \E c \in PieceColor :
        \E passed \in {None} \cup PassedSquares(opposing_color(c), s) :
          \E away \in {IF passed = None THEN 1..RayZone ELSE {RayZone}} :
            \E own \in Around(s, away), other \in Around(s, away) :
              \E pawn \in {IF passed = None THEN {}
                            ELSE {Offset(passed,
                                    <<get_pawn_direction(opposing_color(c)), 0>>)}} :
                \E g \in {Game(BoardOf({<<s, Piece(c, t)>>,
                                        <<own, Piece(c, KING)>>,
                                        <<other, Piece(opposing_color(c), KING)>>}
                                       \cup {<<q, Piece(opposing_color(c), PAWN)>> :
                                                q \in pawn}),
                               IF passed = None THEN opposing_color(c) ELSE c,
                               passed, Both(FALSE), Both(FALSE))} :
                    /\ KingsApart(own, other)
                    /\ \A q \in pawn, k \in 0..2 :
                          Square(q[1] - k * (q[1] - passed[1]), q[2])
                              \notin {s, own, other}
                    /\ passed # None => Reachable(g)
                    /\ Fresh(g, 0)

\* a pawn of the side to move on any square it can stand on, its king
\* behind it, a knight of either side or nothing on each square ahead of
\* it, and possibly a pawn beside it that has just passed the square
\* behind itself in a double push
PawnAhead(c, s, left, ahead, right, far) ==
    LET d == get_pawn_direction(c)
        knight(what, square) ==
            IF what = "empty" THEN {}
            ELSE {<<square, Piece(IF what = "own" THEN c
                                  ELSE opposing_color(c), KNIGHT)>>}
    IN  knight(left, Square(s[1] + d, s[2] - 1))
        \cup knight(ahead, Square(s[1] + d, s[2]))
        \cup knight(right, Square(s[1] + d, s[2] + 1))
        \cup knight(far, Square(s[1] + d + d, s[2]))

InitPawn ==
    \E c \in PieceColor, s \in ValidSquares :
      \E left \in {"empty", "own", "opp"}, ahead \in {"empty", "own", "opp"} :
        \E right \in {"empty", "own", "opp"}, far \in {"empty", "opp"} :
          \E beside \in {-1, 0, 1} :
            LET d == get_pawn_direction(c)
                king == Square(s[1] - d, s[2])
                other == Square(s[1] - d,
                                IF s[2] + 2 < BoardSize
                                THEN s[2] + 2 ELSE s[2] - 2)
                passer == IF beside = 0 THEN {}
                          ELSE {<<Square(s[1], s[2] + beside),
                                  Piece(opposing_color(c), PAWN)>>}
                placed == {<<s, Piece(c, PAWN)>>, <<king, Piece(c, KING)>>,
                           <<other, Piece(opposing_color(c), KING)>>}
                          \cup PawnAhead(c, s, left, ahead, right, far)
                          \cup passer
                g == Game(BoardOf(placed), c,
                          IF beside = 0 THEN None
                          ELSE Square(s[1] + d, s[2] + beside),
                          Both(FALSE), Both(FALSE))
            IN  /\ s[1] \notin {HomeRow(c), get_pawn_end_row(c)}
                /\ \A p \in placed : is_valid(p[1])
                /\ beside # 0 =>
                      /\ s[1] = get_pawn_starting_row(c) + 3 * d
                      /\ (IF beside < 0 THEN left ELSE right) = "empty"
                /\ Reachable(g)
                /\ Fresh(g, 0)

---------------------------------------------------------------------------
(* Operations *)

\* the caller plays one of the legal moves (Game.make_move)
Play ==
    /\ op = "none"
    /\ plyLeft > 0
    /\ game' \in UNION {IF legal.raised THEN {}
                         ELSE {make_move(game, m) : m \in Elems(legal.value)} :
                            legal \in {get_legal_moves(game)}}
    /\ op' = "none"
    /\ arg' = "-"
    /\ ret' = Return(NoResult)
    /\ handed' = {}
    /\ plyLeft' = plyLeft - 1

CallGetLegalMoves ==
    /\ op = "none"
    /\ op' = "get_legal_moves"
    /\ arg' = "-"
    /\ ret' = get_legal_moves(game)
    /\ handed' = LegalMovesHandOuts(game)
    /\ UNCHANGED <<game, plyLeft>>

CallIsCheck ==
    \E king_color \in PieceColor :
        /\ op = "none"
        /\ op' = "is_check"
        /\ arg' = king_color
        /\ ret' = is_check(game.board, king_color)
        /\ handed' = AttackHandOuts(game.board, opposing_color(king_color))
        /\ UNCHANGED <<game, plyLeft>>

CallGetGameResult ==
    /\ op = "none"
    /\ op' = "get_game_result"
    /\ arg' = "-"
    /\ ret' = get_game_result(game)
    /\ handed' = LegalMovesHandOuts(game)
    /\ UNCHANGED <<game, plyLeft>>

\* the directions a piece of this type is stepped along
Directions(type) ==
    CASE type = BISHOP -> BishopDirections
      [] type = ROOK -> RookDirections
      [] type = QUEEN -> BishopDirections \o RookDirections
      [] OTHER -> <<>>

\* the value of `steps` when the loop of each direction breaks
RangedSteps(piece, start_square, board, en_passant) ==
    LET directions == Directions(piece.type)
        opponent == OpponentSquares(piece, board,
                        IF piece.type = QUEEN THEN None ELSE en_passant).now
    IN  [i \in 1..Len(directions) |->
            RangedLoop(directions[i], start_square, get_empty_squares(board),
                       opponent, 1, <<>>).steps]

\* get_psuedo_legal_moves_for_piece as lines 75 and 206 call it: for a piece
\* of the side to move with the game's en-passant target, for any piece but
\* a pawn with none
CallPsuedoLegalMovesForPiece ==
    \E square \in DOMAIN game.board :
      \E en_passant \in {game.en_passant, None} :
        LET piece == game.board[square]
        IN  /\ op = "none"
            /\ \/ piece.color = game.turn /\ en_passant = game.en_passant
               \/ piece.type # PAWN /\ en_passant = None
            /\ op' = "get_psuedo_legal_moves_for_piece"
            /\ arg' = [square |-> square, en_passant |-> en_passant]
            /\ ret' = [raised |-> FALSE,
                       value |-> get_psuedo_legal_moves_for_piece(
                                     piece, square, game.board, en_passant),
                       steps |-> RangedSteps(piece, square, game.board,
                                             en_passant)]
            /\ handed' = PieceHandOuts(piece, game.board, en_passant)
            /\ UNCHANGED <<game, plyLeft>>

\* the caller takes the result and is free to call again
Resume ==
    /\ op # "none"
    /\ op' = "none"
    /\ arg' = "-"
    /\ ret' = Return(NoResult)
    /\ handed' = {}
    /\ UNCHANGED <<game, plyLeft>>

Next ==
    \/ Play
    \/ Resume
    \/ CallGetLegalMoves
    \/ CallIsCheck
    \/ CallGetGameResult
    \/ CallPsuedoLegalMovesForPiece

\* the three public operations of GameRules
NextPublic ==
    \/ Resume
    \/ CallGetLegalMoves
    \/ CallIsCheck
    \/ CallGetGameResult

SpecStart == InitStart /\ [][Next]_vars

\* get_legal_moves and is_check alone
NextLegalMoves ==
    \/ Resume
    \/ CallGetLegalMoves
    \/ CallIsCheck

\* get_psuedo_legal_moves_for_piece alone
NextPiece ==
    \/ Resume
    \/ CallPsuedoLegalMovesForPiece

SpecCastle == InitCastle /\ [][NextLegalMoves]_vars

SpecRay == InitRay /\ [][NextPiece]_vars

SpecPawn == InitPawn /\ [][NextPiece]_vars

SpecEnd == InitEnd /\ [][NextPublic]_vars

---------------------------------------------------------------------------
(* Claims about castling, checked under SpecCastle *)

TaggedMoves(moves, move_type) == SelectSeq(moves, LAMBDA m : m.type = move_type)

GotLegalMoves == op = "get_legal_moves" /\ ~ret.raised

\* the king of the side to move is in check on game.board
InCheck == is_check(game.board, game.turn).value

\* the back-rank square in this column is occupied
Occupied(column) ==
    Square(HomeRow(game.turn), column) \in DOMAIN game.board

\* the back-rank square in this column is attacked by the opponent
Attacked(column) ==
    InList(Square(HomeRow(game.turn), column),
           get_attacked_squares(game.board, opposing_color(game.turn)))

\* the castling preconditions of section 4.4
LongPreconditions ==
    /\ ~InCheck
    /\ game.long_castling_rights[game.turn]
    /\ \A c \in {1, 2, 3} : ~Occupied(c) /\ ~Attacked(c)

ShortPreconditions ==
    /\ ~InCheck
    /\ game.short_castling_rights[game.turn]
    /\ \A c \in {5, 6} : ~Occupied(c) /\ ~Attacked(c)

\* C1: no move get_legal_moves returns, castling moves included, leaves the
\* king of the side to move in check on the board simulate_move gives
C1_LegalMovesLeaveKingSafe ==
    GotLegalMoves =>
        \A m \in Elems(ret.value) :
            is_check(simulate_move(game, m), game.turn) = Return(FALSE)

\* castling to both sides was returned, and a pseudo-legal move was not
C1_Witness ==
    /\ GotLegalMoves
    /\ TaggedMoves(ret.value, LONG_CASTLE) # <<>>
    /\ TaggedMoves(ret.value, SHORT_CASTLE) # <<>>
    /\ \E m \in Elems(get_psuedo_legal_moves(game)) : ~InList(m, ret.value)

\* C4: no castling move of a side is returned when the king is in check,
\* the right of that side is false, or one of the squares in columns 1..3
\* (5..6) of the back rank is occupied or attacked by the opponent
C4_NoCastlingWhenForbidden ==
    GotLegalMoves =>
        /\ (\/ InCheck
            \/ ~game.long_castling_rights[game.turn]
            \/ \E c \in {1, 2, 3} : Occupied(c) \/ Attacked(c))
           => TaggedMoves(ret.value, LONG_CASTLE) = <<>>
        /\ (\/ InCheck
            \/ ~game.short_castling_rights[game.turn]
            \/ \E c \in {5, 6} : Occupied(c) \/ Attacked(c))
           => TaggedMoves(ret.value, SHORT_CASTLE) = <<>>

\* castling long is withheld only because an empty square is attacked, and
\* castling short is returned
C4_Witness ==
    /\ GotLegalMoves
    /\ ~InCheck
    /\ game.long_castling_rights[game.turn]
    /\ \A c \in {1, 2, 3} : ~Occupied(c)
    /\ \E c \in {1, 2, 3} : Attacked(c)
    /\ TaggedMoves(ret.value, LONG_CASTLE) = <<>>
    /\ TaggedMoves(ret.value, SHORT_CASTLE) # <<>>

\* C10: under the long (short) preconditions exactly three (two) castling
\* moves of that side are returned, from column 4 of the back rank to
\* columns 0, 1, 2 (6, 7), and no other move carries a castling tag
C10_CastlingMovesReturned ==
    GotLegalMoves =>
        LET row == HomeRow(game.turn)
            long == TaggedMoves(ret.value, LONG_CASTLE)
            short == TaggedMoves(ret.value, SHORT_CASTLE)
        IN  /\ LongPreconditions =>
                /\ Len(long) = 3
                /\ Elems(long) =
                       {Move(Square(row, 4), Square(row, c), LONG_CASTLE) :
                           c \in {0, 1, 2}}
            /\ ~LongPreconditions => long = <<>>
            /\ ShortPreconditions =>
                /\ Len(short) = 2
                /\ Elems(short) =
                       {Move(Square(row, 4), Square(row, c), SHORT_CASTLE) :
                           c \in {6, 7}}
            /\ ~ShortPreconditions => short = <<>>

\* five castling moves are returned along with ordinary ones
C10_Witness ==
    /\ GotLegalMoves
    /\ LongPreconditions
    /\ ShortPreconditions
    /\ Len(TaggedMoves(ret.value, LONG_CASTLE)) = 3
    /\ Len(TaggedMoves(ret.value, SHORT_CASTLE)) = 2
    /\ Len(ret.value) > 5

---------------------------------------------------------------------------
(* Claims about the result of a game and a missing king, checked under     *)
(* SpecEnd                                                                 *)

GotGameResult == op = "get_game_result"

NoLegalMoves == get_legal_moves(game) = Return(<<>>)

\* C2: with no legal move, get_game_result returns the win of the opponent
\* of the side to move if that side is in check and STALEMATE if it is not
C2_NoLegalMovesResult ==
    (GotGameResult /\ NoLegalMoves) =>
        ret = Return(IF InCheck
                     THEN (IF game.turn = BLACK THEN WHITE_WIN ELSE BLACK_WIN)
                     ELSE STALEMATE)

\* White, to move, is checkmated
C2_Witness ==
    /\ GotGameResult
    /\ NoLegalMoves
    /\ game.turn = WHITE
    /\ InCheck
    /\ ret = Return(BLACK_WIN)

\* only the two kings and one bishop or one knight are on the board
LoneMinorPiece ==
    LET white == PiecesOf(game.board, WHITE)
        black == PiecesOf(game.board, BLACK)
        minor(pieces) ==
            /\ Len(pieces) = 2
            /\ \E t \in {BISHOP, KNIGHT} :
                  {pieces[i].type : i \in 1..Len(pieces)} = {KING, t}
        bare(pieces) == Len(pieces) = 1 /\ pieces[1].type = KING
    IN  \/ minor(white) /\ bare(black)
        \/ bare(white) /\ minor(black)

\* C3 as stated: with the two kings and a lone bishop or knight,
\* get_game_result returns INSUFFICIENT_MATERIAL, wherever the pieces stand
\* and whoever is to move
C3_AsStated ==
    (GotGameResult /\ LoneMinorPiece) => ret = Return(INSUFFICIENT_MATERIAL)

\* C3, amended: with the two kings and a lone bishop or knight,
\* get_game_result returns INSUFFICIENT_MATERIAL when the side to move has
\* a legal move
C3_InsufficientMaterial ==
    (GotGameResult /\ LoneMinorPiece /\ ~NoLegalMoves)
        => ret = Return(INSUFFICIENT_MATERIAL)

\* the draw is returned to the side that has the knight
C3_Witness ==
    /\ GotGameResult
    /\ LoneMinorPiece
    /\ \E s \in DOMAIN game.board : game.board[s] = Piece(game.turn, KNIGHT)
    /\ ret = Return(INSUFFICIENT_MATERIAL)

\* C5: is_check ends in the missing-king error when the board has no king
\* of the colour asked for; get_legal_moves and get_game_result end in it
\* when the board has no king of the side to move
C5_MissingKingRaises ==
    /\ (op = "is_check" /\ KingSquare(game.board, arg) = None)
           => ret = Raise(BoardHasNoKing)
    /\ (op \in {"get_legal_moves", "get_game_result"}
            /\ KingSquare(game.board, game.turn) = None)
           => ret = Raise(BoardHasNoKing)

\* get_game_result raised for a side to move that has no piece at all
C5_Witness ==
    /\ GotGameResult
    /\ get_squares_with_pieces(game.board, game.turn) = <<>>
    /\ ret = Raise(BoardHasNoKing)

---------------------------------------------------------------------------
(* Claims about the moves of one piece, checked under SpecPawn and SpecRay *)

GotPieceMoves == op = "get_psuedo_legal_moves_for_piece"

\* the piece the moves were asked for
Asked == game.board[arg.square]

\* C6: a pawn move is tagged PAWN_PROMOTION, and not ORDINARY, if it ends
\* on the end row of the pawn's colour, and no other pawn move is tagged
\* PAWN_PROMOTION
C6_PromotionTag ==
    (GotPieceMoves /\ Asked.type = PAWN) =>
        \A m \in Elems(ret.value) :
            IF m.end[1] = get_pawn_end_row(Asked.color)
            THEN m.type = PAWN_PROMOTION
            ELSE m.type # PAWN_PROMOTION

\* a pawn promotes by a push and by a capture
C6_Witness ==
    /\ GotPieceMoves
    /\ Asked.type = PAWN
    /\ \E m \in Elems(ret.value) :
          m.type = PAWN_PROMOTION /\ m.end[2] = arg.square[2]
    /\ \E m \in Elems(ret.value) :
          m.type = PAWN_PROMOTION /\ m.end[2] # arg.square[2]

\* the squares k steps from the piece in a direction, k = 1, 2, ...
Along(direction, k) ==
    Square(arg.square[1] + direction[1] * k, arg.square[2] + direction[2] * k)

\* the length of the run of empty squares that starts next to the piece
RunLength(direction) ==
    Cardinality({k \in 1..BoardSize :
        \A j \in 1..k : /\ is_valid(Along(direction, j))
                         /\ Along(direction, j) \notin DOMAIN game.board})

\* the run, and the square after it if an opponent's piece is on it
RayTargets(direction) ==
    {Along(direction, k) : k \in 1..RunLength(direction)}
    \cup {s \in {Along(direction, RunLength(direction) + 1)} :
             /\ is_valid(s)
             /\ At(game.board, s).color = opposing_color(Asked.color)}

\* C9: the end squares of a bishop, rook or queen are, in each of its
\* directions, the run of empty squares next to it and the square after the
\* run if an opponent's piece is on it, each once and nothing else; the
\* loop of each direction breaks at the step after the run
C9_RangedMoves ==
    (GotPieceMoves /\ Asked.type \in {BISHOP, ROOK, QUEEN}) =>
        LET directions == Directions(Asked.type)
            targets == UNION {RayTargets(directions[i]) :
                                 i \in 1..Len(directions)}
        IN  /\ {m.end : m \in Elems(ret.value)} = targets
            /\ Len(ret.value) = Cardinality(targets)
            /\ \A m \in Elems(ret.value) :
                  /\ m.start = arg.square
                  /\ is_valid(m.end)
                  /\ At(game.board, m.end).color # Asked.color
            /\ \A i \in 1..Len(directions) :
                  ret.steps[i] = RunLength(directions[i]) + 1

\* a rook or bishop of the side to move is stopped by its own king after a
\* run of empty squares in one direction, runs over the en-passant target
\* and takes the pawn behind it in another, and runs to the edge of the
\* board in a third
C9_Witness ==
    /\ GotPieceMoves
    /\ Asked.type \in {BISHOP, ROOK}
    /\ arg.en_passant # None
    /\ \E i \in 1..4 :
          /\ At(game.board, Along(Directions(Asked.type)[i], ret.steps[i]))
                = Piece(Asked.color, KING)
          /\ ret.steps[i] > 1
    /\ \E i \in 1..4 :
          LET s == Along(Directions(Asked.type)[i], ret.steps[i])
          IN  /\ At(game.board, s) = Piece(opposing_color(Asked.color), PAWN)
              /\ \E k \in 1..(ret.steps[i] - 1) :
                    Along(Directions(Asked.type)[i], k) = arg.en_passant
              /\ \E m \in Elems(ret.value) : m.end = s
    /\ \E i \in 1..4 :
          /\ ~is_valid(Along(Directions(Asked.type)[i], ret.steps[i]))
          /\ ret.steps[i] > 2

---------------------------------------------------------------------------
(* Claims checked under SpecStart *)

\* the moves of a list whose start square holds a piece of the given type
MovesOf(moves, piece_type, move_type) ==
    SelectSeq(moves, LAMBDA m : /\ game.board[m.start].type = piece_type
                                /\ m.type = move_type)

\* C7: from the standard starting position, White to move, get_legal_moves
\* returns 20 moves: 8 pawn pushes of one square tagged ORDINARY, 8 tagged
\* DOUBLE_PAWN_PUSH, 4 knight moves, and no castling move
C7_TwentyMoves ==
    (game = StartingGame /\ op = "get_legal_moves") =>
        /\ ~ret.raised
        /\ Len(ret.value) = 20
        /\ Cardinality(Elems(ret.value)) = 20
        /\ Len(MovesOf(ret.value, PAWN, ORDINARY)) = 8
        /\ \A m \in Elems(MovesOf(ret.value, PAWN, ORDINARY)) :
              m.end = Square(m.start[1] + get_pawn_direction(WHITE), m.start[2])
        /\ Len(MovesOf(ret.value, PAWN, DOUBLE_PAWN_PUSH)) = 8
        /\ \A m \in Elems(MovesOf(ret.value, PAWN, DOUBLE_PAWN_PUSH)) :
              m.end = Square(m.start[1] + 2 * get_pawn_direction(WHITE),
                             m.start[2])
        /\ Len(MovesOf(ret.value, KNIGHT, ORDINARY)) = 4
        /\ TaggedMoves(ret.value, LONG_CASTLE) = <<>>
        /\ TaggedMoves(ret.value, SHORT_CASTLE) = <<>>

\* get_legal_moves has returned for the standard starting position
C7_Witness ==
    /\ game = StartingGame
    /\ op = "get_legal_moves"
    /\ ~ret.raised
    /\ Len(ret.value) = 20

\* C8: get_legal_moves, is_check and get_game_result leave the game as it
\* was, and every list of squares the board has handed out holds at the
\* return what it held when it was handed out
C8_InputsUnchanged ==
    [][op' \in {"get_legal_moves", "is_check", "get_game_result"} =>
          /\ game' = game
          /\ \A h \in handed' : h.now = h.given]_vars

=============================================================================
